---- MODULE Spec2Model ----
(***************************************************************************)
(* Model of src/system_checks.py (SSHCR system health checks).             *)
(*                                                                         *)
(* run_system_health_checks is one synchronous function; the model walks   *)
(* through it one check at a time (pc names the check that runs next) and  *)
(* every check reads its data source when it runs, so the outcome of each  *)
(* source is chosen by the action that reads it.                           *)
(*                                                                         *)
(* Numbers.  Python floats are modelled in fixed point:                    *)
(*   - every value handed to _status_from_threshold is in TENTHS           *)
(*     (87.5 % is 875, 100.0 MB is 1000); the cutoffs are scaled the same  *)
(*     way by Tenths.  A floor to tenths never changes the outcome of a    *)
(*     comparison with a cutoff that is a whole number of tenths.          *)
(*   - the load average is in HUNDREDTHS (0.5 is 50), as it is printed.    *)
(*   - memory and disk byte counts are in units of 2^20 bytes and log      *)
(*     file sizes in units of 2^10 bytes, because TLC integers have 32     *)
(*     bits and 8 GiB is 2^33 bytes.  A meminfo value v therefore stands   *)
(*     for v * 2^20 kB; the code's "* 1024" is kept.                       *)
(***************************************************************************)
EXTENDS Integers, Sequences, FiniteSets, TLC

(***************************************************************************)
(* Bounds of the explored environments.                                    *)
(***************************************************************************)
\* lines of /proc/mounts
MaxMounts == 2
\* entries of the critical_services list in the configuration file
MaxEntries == 2
\* files found under the log root
MaxFiles == 2

(***************************************************************************)
(* Helpers: sequences, strings, number formatting.                         *)
(***************************************************************************)
\* all sequences over S of length 0..n
SeqUpTo(S, n) == UNION { [1..k -> S] : k \in 0..n }

\* a value x given with one decimal becomes x * 10
Tenths(x) == x * 10

\* Python's str.startswith
StartsWith(s, p) == Len(s) >= Len(p) /\ SubSeq(s, 1, Len(p)) = p

\* the whitespace characters the model's strings use
Whitespace == {" ", "\t", "\n"}

RECURSIVE LStrip(_, _)
LStrip(s, cs) ==
    IF Len(s) > 0 /\ SubSeq(s, 1, 1) \in cs THEN LStrip(SubSeq(s, 2, Len(s)), cs) ELSE s

RECURSIVE RStrip(_, _)
RStrip(s, cs) ==
    IF Len(s) > 0 /\ SubSeq(s, Len(s), Len(s)) \in cs
    THEN RStrip(SubSeq(s, 1, Len(s) - 1), cs) ELSE s

\* Python's str.strip(): without an argument cs is Whitespace
Strip(s, cs) == RStrip(LStrip(s, cs), cs)

\* f"{x:.1f}" of a value kept in tenths
Fmt1(t) == ToString(t \div 10) \o "." \o ToString(t % 10)

\* f"{x:.2f}" of a value kept in hundredths
Fmt2(h) ==
    ToString(h \div 100) \o "." \o ToString((h % 100) \div 10) \o ToString(h % 10)

(***************************************************************************)
(* Threshold classifier and risk score.                                    *)
(***************************************************************************)
\* _status_from_threshold with > for >=
_status_from_threshold_strict(value, warn, risk) ==
    IF value > risk THEN "RISK"
    ELSE IF value > warn THEN "WARNING"
    ELSE "OK"

\* _status_from_threshold with the two cutoffs taken in the other order
_status_from_threshold_swapped(value, warn, risk) ==
    IF value >= warn THEN "RISK"
    ELSE IF value >= risk THEN "WARNING"
    ELSE "OK"

_status_from_threshold(value, warn, risk) ==
    IF value >= risk THEN "RISK"
    ELSE IF value >= warn THEN "WARNING"
    ELSE "OK"

\* _risk_score with the scores of WARNING and RISK exchanged
_risk_score_exchanged(status) ==
    IF status = "RISK" THEN 55
    ELSE IF status = "WARNING" THEN 85
    ELSE 10

_risk_score(status) ==
    IF status = "RISK" THEN 85
    ELSE IF status = "WARNING" THEN 55
    ELSE 10

\* the dict literal every findings.append builds
Finding(category, check, status, details, reason) ==
    [category   |-> category,
     check      |-> check,
     status     |-> status,
     details    |-> details,
     risk_score |-> _risk_score(status),
     reason     |-> reason]

(***************************************************************************)
(* Results of a call: a value, or an exception that leaves the callee.     *)
(***************************************************************************)
Ok(v) == [exc |-> "none", val |-> v]

\* exception e raised in function fn
Raise(e, fn) == [exc |-> e, in |-> fn]

(***************************************************************************)
(* Data sources.  A text file is [err, lines]: err is what open()/read()   *)
(* raises ("none" when the file reads), lines its content.                 *)
(***************************************************************************)
File(lines) == [err |-> "none", lines |-> lines]

Unreadable(e) == [err |-> e, lines |-> <<>>]

\* platform.platform(), the fallback display name
PlatformName == "Linux-x86_64"

OsReleaseSources ==
    { Unreadable("OSError"),
      Unreadable("UnicodeDecodeError"),
      File(<<>>),
      File(<<"NAME=\"Ubuntu\"\n">>),
      File(<<"NAME=\"Ubuntu\"\n", "PRETTY_NAME=\"Ubuntu 22.04\"\n">>) }

\* a whitespace-separated token of a file: a number, or text that is none
Num(n) == [isnum |-> TRUE, v |-> n]

Junk == [isnum |-> FALSE, v |-> 0]

\* /proc/uptime: [err, tokens], the tokens of handle.read().split()
UptimeSources ==
    { [err |-> "OSError", tokens |-> <<>>],
      [err |-> "UnicodeDecodeError", tokens |-> <<>>],
      [err |-> "none", tokens |-> <<>>],
      [err |-> "none", tokens |-> <<Junk>>],
      [err |-> "none", tokens |-> <<Num(0), Num(0)>>],
      [err |-> "none", tokens |-> <<Num(90), Num(40)>>],
      [err |-> "none", tokens |-> <<Num(7200), Num(40)>>],
      [err |-> "none", tokens |-> <<Num(90000), Num(40)>>] }

\* os.getloadavg(): OSError, or the 1-minute load in hundredths
LoadSources ==
    { [err |-> "OSError", load |-> 0],
      [err |-> "none", load |-> 50],
      [err |-> "none", load |-> 280],
      [err |-> "none", load |-> 360] }

\* os.cpu_count(); 0 stands for None
CpuCountSources == {0, 1, 4}

\* a line of /proc/meminfo: its key and the tokens after the key
MemLine(key, rest) == [key |-> key, rest |-> rest]

MeminfoSources ==
    { Unreadable("OSError"),
      Unreadable("UnicodeDecodeError"),
      File(<<>>),
      File(<<MemLine("MemFree:", <<Num(3)>>)>>),
      File(<<MemLine("MemTotal:", <<Num(8)>>), MemLine("MemAvailable:", <<Num(1)>>)>>),
      File(<<MemLine("MemTotal:", <<Num(10)>>), MemLine("MemAvailable:", <<Num(1)>>)>>),
      File(<<MemLine("MemTotal:", <<Num(8)>>), MemLine("MemAvailable:", <<Num(8)>>)>>),
      File(<<MemLine("MemTotal:", <<Num(0)>>), MemLine("MemAvailable:", <<Num(0)>>)>>),
      File(<<MemLine("MemTotal:", <<Junk>>)>>),
      File(<<MemLine("MemTotal:", <<Num(8)>>), MemLine("MemAvailable:", <<Junk>>)>>),
      File(<<MemLine("MemTotal:", <<>>)>>) }

(***************************************************************************)
(* Identity, uptime, load and memory collectors.                           *)
(***************************************************************************)
_read_first_line(src) ==
    IF src.err = "OSError" THEN Ok("")
    ELSE IF src.err # "none" THEN Raise(src.err, "_read_first_line")
    ELSE IF Len(src.lines) = 0 THEN Ok("")
    ELSE Ok(Strip(src.lines[1], Whitespace))

\* the loop over the lines of /etc/os-release, from line i on
RECURSIVE PrettyNameFrom(_, _)
PrettyNameFrom(lines, i) ==
    IF i > Len(lines) THEN PlatformName
    ELSE IF StartsWith(lines[i], "PRETTY_NAME=")
         THEN Strip(Strip(SubSeq(lines[i], Len("PRETTY_NAME=") + 1, Len(lines[i])),
                          Whitespace), {"\""})
         ELSE PrettyNameFrom(lines, i + 1)

_get_os_pretty_name(src) ==
    LET line == _read_first_line(src)
    IN  IF line.exc # "none" THEN line
        ELSE IF line.val # "" THEN Ok(PrettyNameFrom(src.lines, 1))
        ELSE Ok(PlatformName)

_get_uptime_seconds(src) ==
    IF src.err # "none" THEN 0
    ELSE IF Len(src.tokens) = 0 THEN 0
    ELSE IF ~src.tokens[1].isnum THEN 0
    ELSE src.tokens[1].v

_format_uptime(seconds) ==
    IF seconds <= 0 THEN "unknown"
    ELSE LET minutes == seconds \div 60
             hours   == minutes \div 60
             days    == hours \div 24
         IN  IF days > 0 THEN ToString(days) \o "d " \o ToString(hours % 24) \o "h"
             ELSE IF hours > 0 THEN ToString(hours) \o "h " \o ToString(minutes % 60) \o "m"
             ELSE ToString(minutes) \o "m"

_get_load_1min(src) == IF src.err = "OSError" THEN 0 ELSE src.load

_get_cpu_count(n) == IF n = 0 THEN 1 ELSE n

\* the loop over the lines of /proc/meminfo, from line i on, with the values
\* parsed so far; int(line.split()[1]) raises IndexError without a second
\* token and ValueError when the token is no integer
RECURSIVE MemScan(_, _, _, _)
MemScan(lines, i, total, available) ==
    IF i > Len(lines) THEN Ok([total |-> total, available |-> available])
    ELSE LET line == lines[i]
         IN  IF line.key \in {"MemTotal:", "MemAvailable:"}
             THEN IF Len(line.rest) = 0 THEN Raise("IndexError", "_get_memory_info")
                  ELSE IF ~line.rest[1].isnum THEN Raise("ValueError", "_get_memory_info")
                  ELSE IF line.key = "MemTotal:"
                       THEN MemScan(lines, i + 1, line.rest[1].v * 1024, available)
                       ELSE MemScan(lines, i + 1, total, line.rest[1].v * 1024)
             ELSE MemScan(lines, i + 1, total, available)

MemUnavailable == [total |-> 0, available |-> 0, percent_used |-> 0]

_get_memory_info(src) ==
    IF src.err \in {"OSError", "UnicodeDecodeError"} THEN Ok(MemUnavailable)
    ELSE LET scan == MemScan(src.lines, 1, 0, 0)
         IN  IF scan.exc = "ValueError" THEN Ok(MemUnavailable)
             ELSE IF scan.exc # "none" THEN scan
             ELSE IF scan.val.total > 0
                  THEN Ok([total        |-> scan.val.total,
                           available    |-> scan.val.available,
                           percent_used |->
                               ((scan.val.total - scan.val.available) * Tenths(100))
                                   \div scan.val.total])
                  ELSE Ok(MemUnavailable)

(***************************************************************************)
(* Disk and inode collectors.                                              *)
(***************************************************************************)
\* the lines of /proc/mounts, each already split into its parts
MountLines ==
    { <<"/dev/sda1", "/", "ext4", "rw">>,
      <<"/dev/sdb1", "/data", "xfs", "rw">>,
      <<"tmpfs", "/run", "tmpfs", "rw">>,
      <<"/dev/shm0", "/dev/shm", "tmpfs", "rw">>,
      <<"none", "/stub">> }

\* the condition both collectors put on a line of /proc/mounts
Qualifies(parts) ==
    /\ Len(parts) >= 3
    /\ StartsWith(parts[1], "/dev/")
    /\ parts[3] \notin {"tmpfs", "devtmpfs"}

\* the mount points shutil.disk_usage and os.statvfs get asked about
MountPoints == { l[2] : l \in { m \in MountLines : Qualifies(m) } }

MountsSources ==
    { Unreadable("OSError"), Unreadable("UnicodeDecodeError") }
        \cup { File(ls) : ls \in SeqUpTo(MountLines, MaxMounts) }

\* shutil.disk_usage(mountpoint): OSError, or used and total in 2^20 bytes
DiskUsageOutcomes ==
    { [err |-> "OSError", used |-> 0, total |-> 0],
      [err |-> "none", used |-> 0, total |-> 0],
      [err |-> "none", used |-> 95 * 1024, total |-> 100 * 1024] }

\* os.statvfs(mountpoint): OSError, or the inode counts f_files and f_ffree
StatvfsOutcomes ==
    { [err |-> "OSError", f_files |-> 0, f_ffree |-> 0],
      [err |-> "none", f_files |-> 0, f_ffree |-> 0],
      [err |-> "none", f_files |-> 1000, f_ffree |-> 250] }

\* the loop of _get_disk_usages from line i on; usage maps a mount point to
\* what shutil.disk_usage answers for it
RECURSIVE DiskScan(_, _, _, _)
DiskScan(lines, i, usage, results) ==
    IF i > Len(lines) THEN results
    ELSE LET parts == lines[i]
         IN  IF ~Qualifies(parts) \/ usage[parts[2]].err = "OSError"
             THEN DiskScan(lines, i + 1, usage, results)
             ELSE LET u == usage[parts[2]]
                      percent == IF u.total # 0
                                 THEN (u.used * Tenths(100)) \div u.total
                                 ELSE 0
                  IN  DiskScan(lines, i + 1, usage,
                               Append(results, [mountpoint |-> parts[2],
                                                percent    |-> percent,
                                                used       |-> u.used,
                                                total      |-> u.total]))

_get_disk_usages(src, usage) ==
    IF src.err = "OSError" THEN Ok(<<>>)
    ELSE IF src.err # "none" THEN Raise(src.err, "_get_disk_usages")
    ELSE Ok(DiskScan(src.lines, 1, usage, <<>>))

\* the loop of _get_inode_usages from line i on
RECURSIVE InodeScan(_, _, _, _)
InodeScan(lines, i, stat, results) ==
    IF i > Len(lines) THEN results
    ELSE LET parts == lines[i]
         IN  IF ~Qualifies(parts) \/ stat[parts[2]].err = "OSError"
             THEN InodeScan(lines, i + 1, stat, results)
             ELSE LET st == stat[parts[2]]
                  IN  IF st.f_files > 0
                      THEN InodeScan(lines, i + 1, stat,
                               Append(results,
                                  [mountpoint |-> parts[2],
                                   percent    |-> ((st.f_files - st.f_ffree) * Tenths(100))
                                                      \div st.f_files]))
                      ELSE InodeScan(lines, i + 1, stat, results)

_get_inode_usages(src, stat) ==
    IF src.err = "OSError" THEN Ok(<<>>)
    ELSE IF src.err # "none" THEN Raise(src.err, "_get_inode_usages")
    ELSE Ok(InodeScan(src.lines, 1, stat, <<>>))

(***************************************************************************)
(* Critical services: configuration and systemctl.                         *)
(***************************************************************************)
\* JSON values
JStr(text) == [type |-> "string", text |-> text]

JNum(n) == [type |-> "number", num |-> n]

JNull == [type |-> "null"]

JArr(items) == [type |-> "array", items |-> items]

\* an object holding the critical_services key
JObj(value) == [type |-> "object", has_key |-> TRUE, critical_services |-> value]

\* an object without it
JObjOther == [type |-> "object", has_key |-> FALSE]

\* docs/critical_services.json: what open() or json.load raises, or the document
Config(doc) == [err |-> "none", doc |-> doc]

ConfigError(e) == [err |-> e]

\* Python's str() of a JSON scalar
PyStr(x) ==
    IF x.type = "string" THEN x.text
    ELSE IF x.type = "number" THEN ToString(x.num)
    ELSE "None"

\* Python's truth value of a JSON value
Truthy(x) ==
    IF x.type = "string" THEN x.text # ""
    ELSE IF x.type = "number" THEN x.num # 0
    ELSE IF x.type = "array" THEN Len(x.items) > 0
    ELSE IF x.type = "object" THEN x.has_key
    ELSE FALSE

\* [str(s).strip() for s in services if str(s).strip()], from item i on
RECURSIVE StrippedNames(_, _)
StrippedNames(items, i) ==
    IF i > Len(items) THEN <<>>
    ELSE LET name == Strip(PyStr(items[i]), Whitespace)
         IN  IF name # "" THEN <<name>> \o StrippedNames(items, i + 1)
             ELSE StrippedNames(items, i + 1)

default_services == <<"ssh", "systemd-journald">>

_load_critical_services(src) ==
    IF src.err \in {"OSError", "JSONDecodeError"} THEN Ok(default_services)
    ELSE IF src.err # "none" THEN Raise(src.err, "_load_critical_services")
    ELSE IF src.doc.type # "object"
    THEN Raise("AttributeError", "_load_critical_services")
    ELSE LET services == IF src.doc.has_key THEN src.doc.critical_services
                         ELSE JArr(<<>>)
         IN  IF services.type = "array" /\ Truthy(services)
             THEN Ok(StrippedNames(services.items, 1))
             ELSE Ok(default_services)

\* what subprocess.run comes to: the command's stdout, an exception, or
\* "hang" when the command never exits (subprocess.run is given no timeout,
\* so it then never returns; callers see exc = "hang" and stop there)
Stdout(text) == [err |-> "none", stdout |-> text]

ProcError(e) == [err |-> e, stdout |-> ""]

SystemctlReplies ==
    { Stdout("active\n"), Stdout("inactive\n"),
      ProcError("OSError"), ProcError("UnicodeDecodeError"), ProcError("hang") }

_systemctl_is_active(reply) ==
    IF reply.err = "OSError" THEN Ok(FALSE)
    ELSE IF reply.err # "none" THEN Raise(reply.err, "_systemctl_is_active")
    ELSE Ok(Strip(reply.stdout, Whitespace) = "active")

\* what `systemctl is-active name` comes to on a host; systemd answers
\* "inactive" for a unit it does not know
SystemctlReply(replies, name) ==
    IF name \in DOMAIN replies THEN replies[name] ELSE Stdout("inactive\n")

\* the list comprehension of _check_services from service i on: the answers
\* of _systemctl_is_active so far, or the exception (or hang) of the first
\* query that does not return
RECURSIVE QueryServices(_, _, _, _)
QueryServices(services, i, replies, answers) ==
    IF i > Len(services) THEN Ok(answers)
    ELSE LET r == _systemctl_is_active(SystemctlReply(replies, services[i]))
         IN  IF r.exc # "none" THEN r
             ELSE QueryServices(services, i + 1, replies, Append(answers, r.val))

\* the names whose answer is FALSE, in order
RECURSIVE Missing(_, _, _)
Missing(services, answers, i) ==
    IF i > Len(services) THEN <<>>
    ELSE IF ~answers[i] THEN <<services[i]>> \o Missing(services, answers, i + 1)
    ELSE Missing(services, answers, i + 1)

\* sep.join(names)
RECURSIVE Join(_, _)
Join(sep, names) ==
    IF Len(names) = 0 THEN ""
    ELSE IF Len(names) = 1 THEN names[1]
    ELSE names[1] \o sep \o Join(sep, Tail(names))

_check_services(services, replies) ==
    LET q == QueryServices(services, 1, replies, <<>>)
    IN  IF q.exc # "none" THEN q
        ELSE LET missing == Missing(services, q.val, 1)
             IN  IF Len(missing) > 0
                 THEN Ok([status  |-> "WARNING",
                          details |-> "Not active: " \o Join(", ", missing),
                          answers |-> q.val])
                 ELSE Ok([status  |-> "OK",
                          details |-> "All critical services active",
                          answers |-> q.val])

(***************************************************************************)
(* Log growth and time synchronisation.                                    *)
(***************************************************************************)
\* os.path.getsize of a file under the log root: OSError, or its size in
\* units of 2^10 bytes
LogFiles ==
    { [err |-> "OSError", size |-> 0],
      [err |-> "none", size |-> 0],
      [err |-> "none", size |-> 100 * 1024],
      [err |-> "none", size |-> 412 * 1024],
      [err |-> "none", size |-> 1948 * 1024] }

\* the log root: walkable is FALSE when the root is missing or unreadable
LogSources ==
    { [walkable |-> w, files |-> fs] : w \in BOOLEAN, fs \in SeqUpTo(LogFiles, MaxFiles) }

\* os.walk(log_dir), flattened to the files it yields.  os.walk is called
\* without onerror, so a root it cannot list yields nothing and raises nothing
os_walk(src) == IF src.walkable THEN src.files ELSE <<>>

\* the loop adding up os.path.getsize, from file i on
RECURSIVE TotalSize(_, _)
TotalSize(files, i) ==
    IF i > Len(files) THEN 0
    ELSE IF files[i].err = "OSError" THEN TotalSize(files, i + 1)
    ELSE files[i].size + TotalSize(files, i + 1)

\* default arguments of _check_log_growth
log_dir == "/var/log"

_check_log_growth(src) ==
    LET total_bytes == TotalSize(os_walk(src), 1)
        total_mb    == Tenths(total_bytes) \div 1024
        status      == _status_from_threshold(total_mb, Tenths(512), Tenths(2048))
    IN  [status |-> status, details |-> Fmt1(total_mb) \o " MB in " \o log_dir]

\* str.lower() on the letters the model's strings use
LowerChar(c) ==
    IF c = "Y" THEN "y" ELSE IF c = "E" THEN "e" ELSE IF c = "S" THEN "s"
    ELSE IF c = "N" THEN "n" ELSE IF c = "O" THEN "o" ELSE IF c = "A" THEN "a"
    ELSE c

RECURSIVE Lower(_)
Lower(s) ==
    IF Len(s) = 0 THEN ""
    ELSE LowerChar(SubSeq(s, 1, 1)) \o Lower(SubSeq(s, 2, Len(s)))

TimedatectlReplies ==
    { Stdout("yes\n"), Stdout("Yes\n"), Stdout("no\n"), Stdout("\n"), Stdout("N/A\n"),
      ProcError("OSError"), ProcError("UnicodeDecodeError"), ProcError("hang") }

_check_time_sync(reply) ==
    IF reply.err = "OSError"
    THEN Ok([status |-> "WARNING", details |-> "Unable to determine NTP sync status"])
    ELSE IF reply.err # "none" THEN Raise(reply.err, "_check_time_sync")
    ELSE LET value == Lower(Strip(reply.stdout, Whitespace))
         IN  IF value = "yes"
             THEN Ok([status |-> "OK", details |-> "NTP synchronized"])
             ELSE IF value = "no"
             THEN Ok([status |-> "WARNING", details |-> "NTP not synchronized"])
             ELSE Ok([status |-> "WARNING",
                      details |-> "Unable to determine NTP sync status"])

(***************************************************************************)
(* The host: what every data source answers during one run.  A run reads   *)
(* each source once, /proc/mounts twice (disk check, inode check).         *)
(***************************************************************************)
\* the service names systemctl is asked about
ServiceNames == {"ssh", "systemd-journald", "nginx"}

\* the configuration files explored together with the systemctl answers
ConfigSources ==
    { ConfigError("OSError"),
      Config(JObj(JArr(<<JStr("nginx")>>))),
      Config(JObj(JArr(<<JStr("ssh"), JStr(" nginx ")>>))) }

\* the entries a critical_services list is built from
ConfigEntries == { JStr("ssh"), JStr(" nginx "), JStr("  "), JStr(""), JNum(7), JNull }

\* the values the critical_services key is explored with
ConfigValues ==
    { JArr(items) : items \in SeqUpTo(ConfigEntries, MaxEntries) }
        \cup { JStr("ssh"), JNum(1), JNull, JObjOther }

\* every configuration file explored
AllConfigSources ==
    { ConfigError("OSError"), ConfigError("JSONDecodeError"),
      ConfigError("UnicodeDecodeError") }
        \cup { Config(JObj(v)) : v \in ConfigValues }
        \cup { Config(d) : d \in { JObjOther, JArr(<<>>), JArr(<<JStr("ssh")>>),
                                   JStr("ssh"), JNum(1), JNull } }

\* a healthy host: every source reads, and the values of the end-to-end example
NominalHost ==
    [os_release   |-> File(<<"NAME=\"Ubuntu\"\n", "PRETTY_NAME=\"Ubuntu 22.04\"\n">>),
     uptime       |-> [err |-> "none", tokens |-> <<Num(90), Num(40)>>],
     loadavg      |-> [err |-> "none", load |-> 50],
     cpus         |-> 4,
     meminfo      |-> File(<<MemLine("MemTotal:", <<Num(8)>>),
                             MemLine("MemAvailable:", <<Num(1)>>)>>),
     mounts_disk  |-> File(<<<<"/dev/sda1", "/", "ext4", "rw">>>>),
     disk_usage   |-> [m \in MountPoints |->
                          [err |-> "none", used |-> 95 * 1024, total |-> 100 * 1024]],
     mounts_inode |-> File(<<<<"/dev/sda1", "/", "ext4", "rw">>>>),
     statvfs      |-> [m \in MountPoints |->
                          [err |-> "none", f_files |-> 1000, f_ffree |-> 250]],
     config       |-> ConfigError("OSError"),
     systemctl    |-> [n \in ServiceNames |-> Stdout("active\n")],
     log          |-> [walkable |-> TRUE, files |-> <<[err |-> "none", size |-> 100 * 1024]>>],
     timedatectl  |-> Stdout("yes\n")]

\* a host on which every source fails in the way its collector catches
DegradedHost ==
    [os_release   |-> Unreadable("OSError"),
     uptime       |-> [err |-> "OSError", tokens |-> <<>>],
     loadavg      |-> [err |-> "OSError", load |-> 0],
     cpus         |-> 0,
     meminfo      |-> Unreadable("OSError"),
     mounts_disk  |-> Unreadable("OSError"),
     disk_usage   |-> [m \in MountPoints |-> [err |-> "OSError", used |-> 0, total |-> 0]],
     mounts_inode |-> Unreadable("OSError"),
     statvfs      |-> [m \in MountPoints |-> [err |-> "OSError", f_files |-> 0, f_ffree |-> 0]],
     config       |-> ConfigError("JSONDecodeError"),
     systemctl    |-> [n \in ServiceNames |-> ProcError("OSError")],
     log          |-> [walkable |-> FALSE, files |-> <<>>],
     timedatectl  |-> ProcError("OSError")]

\* the hosts explored: each base host with the sources of one check replaced
\* by every combination of that check's outcomes; for the two reads of
\* /proc/mounts the second read returns what the first did, or fails, or is
\* empty, or is the base host's file
HostsAround(b) ==
    { [b EXCEPT !.os_release = o, !.uptime = u] :
          o \in OsReleaseSources, u \in UptimeSources }
    \cup { [b EXCEPT !.loadavg = l, !.cpus = n] : l \in LoadSources, n \in CpuCountSources }
    \cup { [b EXCEPT !.meminfo = m] : m \in MeminfoSources }
    \cup { [b EXCEPT !.mounts_disk = m, !.disk_usage = u] :
              m \in MountsSources, u \in [MountPoints -> DiskUsageOutcomes] }
    \cup { [b EXCEPT !.mounts_inode = m, !.statvfs = st] :
              m \in MountsSources, st \in [MountPoints -> StatvfsOutcomes] }
    \cup { [b EXCEPT !.mounts_disk = m, !.mounts_inode = n] :
              m \in MountsSources,
              n \in { Unreadable("OSError"), Unreadable("UnicodeDecodeError"),
                      File(<<>>), b.mounts_disk } }
    \cup { [b EXCEPT !.mounts_disk = m, !.mounts_inode = m] : m \in MountsSources }
    \cup { [b EXCEPT !.config = c] : c \in AllConfigSources }
    \cup { [b EXCEPT !.config = c, !.systemctl = r] :
              c \in ConfigSources, r \in [ServiceNames -> SystemctlReplies] }
    \cup { [b EXCEPT !.log = l] : l \in LogSources }
    \cup { [b EXCEPT !.timedatectl = t] : t \in TimedatectlReplies }

Hosts == HostsAround(NominalHost) \cup HostsAround(DegradedHost)

(***************************************************************************)
(* State of one call of run_system_health_checks.                          *)
(***************************************************************************)
VARIABLES
    host,              \* the data sources of this run
    pc,                \* the check that runs next, "done" after the return
    exc,               \* the exception that left the function, or "none"
    exc_in,            \* the function that raised it (or that never returned)
    blocked,           \* TRUE inside a subprocess.run that never returns
    findings,          \* the list the function builds and returns
    uptime_seconds,
    load_1,
    cpu_count,
    mem_total,
    mem_available,
    mem_used_percent,
    disks,
    inode_usages,
    services,
    call,              \* the arguments of a direct call of _status_from_threshold
    result             \* what that call returned, "" before it is made

vars == <<host, pc, exc, exc_in, blocked, findings, uptime_seconds, load_1, cpu_count, mem_total,
          mem_available, mem_used_percent, disks, inode_usages, services,
          call, result>>

Init ==
    /\ host \in Hosts
    /\ pc = "identity"
    /\ exc = "none"
    /\ exc_in = ""
    /\ blocked = FALSE
    /\ findings = <<>>
    /\ uptime_seconds = 0
    /\ load_1 = 0
    /\ cpu_count = 0
    /\ mem_total = 0
    /\ mem_available = 0
    /\ mem_used_percent = 0
    /\ disks = <<>>
    /\ inode_usages = <<>>
    /\ services = <<>>
    /\ call = [value |-> 0, warn |-> 0, risk |-> 0]
    /\ result = ""

\* the function is still running its checks
Running == exc = "none" /\ ~blocked

\* an exception leaves the function at the current check, or the check's
\* subprocess.run never returns: the caller gets no findings
Abort(r) ==
    /\ pc' = pc
    /\ exc' = IF r.exc = "hang" THEN exc ELSE r.exc
    /\ exc_in' = r.in
    /\ blocked' = (r.exc = "hang")

\* NextCheck with the disk and inode checks in each other's place
NextCheck_InodeFirst(p) ==
    CASE p = "identity" -> "cpu"
      [] p = "cpu"      -> "memory"
      [] p = "memory"   -> "inode"
      [] p = "inode"    -> "disk"
      [] p = "disk"     -> "services"
      [] p = "services" -> "log"
      [] p = "log"      -> "time"
      [] p = "time"     -> "done"

\* the order in which run_system_health_checks runs its checks
NextCheck(p) ==
    CASE p = "identity" -> "cpu"
      [] p = "cpu"      -> "memory"
      [] p = "memory"   -> "disk"
      [] p = "disk"     -> "inode"
      [] p = "inode"    -> "services"
      [] p = "services" -> "log"
      [] p = "log"      -> "time"
      [] p = "time"     -> "done"

\* a check ends normally: its findings are appended and the next check is due
Proceed(new) ==
    /\ pc' = NextCheck(pc)
    /\ UNCHANGED <<exc, exc_in, blocked>>
    /\ findings' = findings \o new

Identity ==
    /\ Running
    /\ pc = "identity"
    /\ LET os_name   == _get_os_pretty_name(host.os_release)
           seconds   == _get_uptime_seconds(host.uptime)
           os_status == IF seconds > 0 THEN "OK" ELSE "WARNING"
       IN  IF os_name.exc # "none"
           THEN Abort(os_name) /\ UNCHANGED <<findings, uptime_seconds>>
           ELSE /\ uptime_seconds' = seconds
                /\ Proceed(<<Finding("System", "OS version & uptime", os_status,
                                     os_name.val \o ", uptime " \o _format_uptime(seconds),
                                     "Baseline host identification and uptime evidence")>>)
    /\ UNCHANGED <<call, result, host, load_1, cpu_count, mem_total, mem_available, mem_used_percent,
                   disks, inode_usages, services>>

\* lines 242-243: the load per CPU as a percentage, in tenths (load is in hundredths)
LoadPercent(load, cpus) == IF cpus # 0 THEN Tenths(load) \div cpus ELSE Tenths(load)

CpuLoad ==
    /\ Running
    /\ pc = "cpu"
    /\ LET load   == _get_load_1min(host.loadavg)
           cpus   == _get_cpu_count(host.cpus)
           status == _status_from_threshold(LoadPercent(load, cpus), Tenths(70), Tenths(90))
       IN  /\ load_1' = load
           /\ cpu_count' = cpus
           /\ Proceed(<<Finding("System", "CPU load (1m)", status,
                                "Load " \o Fmt2(load) \o " across " \o ToString(cpus)
                                    \o " CPU(s)",
                                "Sustained high load can degrade service availability")>>)
    /\ UNCHANGED <<call, result, host, uptime_seconds, mem_total, mem_available, mem_used_percent,
                   disks, inode_usages, services>>

\* MemStatus without the override for a total of zero
MemStatus_Unforced(total, percent) ==
    _status_from_threshold(percent, Tenths(80), Tenths(90))

\* lines 256-261: the memory finding's status
MemStatus(total, percent) ==
    IF total > 0 THEN _status_from_threshold(percent, Tenths(80), Tenths(90))
    ELSE "WARNING"

\* n / 1024**3 printed with one decimal, n in 2^20 bytes
FmtGB(n) == Fmt1(Tenths(n) \div 1024)

\* lines 257-260: the memory finding's details
MemDetails(total, percent) ==
    IF total > 0
    THEN "Used " \o Fmt1(percent) \o "% of " \o FmtGB(total) \o " GB"
    ELSE "Memory stats unavailable"

Memory ==
    /\ Running
    /\ pc = "memory"
    /\ LET m == _get_memory_info(host.meminfo)
       IN  IF m.exc # "none"
           THEN Abort(m) /\ UNCHANGED <<findings, mem_total, mem_available, mem_used_percent>>
           ELSE /\ mem_total' = m.val.total
                /\ mem_available' = m.val.available
                /\ mem_used_percent' = m.val.percent_used
                /\ Proceed(<<Finding("System", "Memory usage",
                                     MemStatus(m.val.total, m.val.percent_used),
                                     MemDetails(m.val.total, m.val.percent_used),
                                     "Memory pressure impacts stability and response time")>>)
    /\ UNCHANGED <<call, result, host, uptime_seconds, load_1, cpu_count, disks, inode_usages, services>>

\* lines 286-297: one finding per entry of disks, from entry i on
RECURSIVE PerMountDiskFindings(_, _)
PerMountDiskFindings(ds, i) ==
    IF i > Len(ds) THEN <<>>
    ELSE <<Finding("Storage", "Disk usage " \o ds[i].mountpoint,
                   _status_from_threshold(ds[i].percent, Tenths(80), Tenths(90)),
                   Fmt1(ds[i].percent) \o "% used (" \o FmtGB(ds[i].used) \o " GB / "
                       \o FmtGB(ds[i].total) \o " GB)",
                   "Low free space can cause service failures")>>
         \o PerMountDiskFindings(ds, i + 1)

\* DiskFindings without the synthetic finding for an empty list
DiskFindings_NoSynthetic(ds) == PerMountDiskFindings(ds, 1)

\* lines 274-297: the findings of the disk check
DiskFindings(ds) ==
    IF Len(ds) = 0
    THEN <<Finding("Storage", "Disk usage", "WARNING", "No disk usage data found",
                   "Cannot confirm disk headroom for safe operation")>>
    ELSE PerMountDiskFindings(ds, 1)

Disk ==
    /\ Running
    /\ pc = "disk"
    /\ LET d == _get_disk_usages(host.mounts_disk, host.disk_usage)
       IN  IF d.exc # "none"
           THEN Abort(d) /\ UNCHANGED <<findings, disks>>
           ELSE /\ disks' = d.val
                /\ Proceed(DiskFindings(d.val))
    /\ UNCHANGED <<call, result, host, uptime_seconds, load_1, cpu_count, mem_total, mem_available,
                   mem_used_percent, inode_usages, services>>

\* lines 300-312: one finding per entry of inode_usages, from entry i on
RECURSIVE InodeFindings(_, _)
InodeFindings(us, i) ==
    IF i > Len(us) THEN <<>>
    ELSE <<Finding("Storage", "Inode usage " \o us[i].mountpoint,
                   _status_from_threshold(us[i].percent, Tenths(70), Tenths(90)),
                   Fmt1(us[i].percent) \o "% inode usage",
                   "Inode exhaustion breaks file creation and logging")>>
         \o InodeFindings(us, i + 1)

Inode ==
    /\ Running
    /\ pc = "inode"
    /\ LET u == _get_inode_usages(host.mounts_inode, host.statvfs)
       IN  IF u.exc # "none"
           THEN Abort(u) /\ UNCHANGED <<findings, inode_usages>>
           ELSE /\ inode_usages' = u.val
                /\ Proceed(InodeFindings(u.val, 1))
    /\ UNCHANGED <<call, result, host, uptime_seconds, load_1, cpu_count, mem_total, mem_available,
                   mem_used_percent, disks, services>>

Services ==
    /\ Running
    /\ pc = "services"
    /\ LET loaded == _load_critical_services(host.config)
       IN  IF loaded.exc # "none"
           THEN Abort(loaded) /\ UNCHANGED <<findings, services>>
           ELSE LET r == _check_services(loaded.val, host.systemctl)
                IN  /\ services' = loaded.val
                    /\ IF r.exc # "none"
                       THEN Abort(r) /\ UNCHANGED findings
                       ELSE Proceed(<<Finding("Services", "Critical services",
                                r.val.status, r.val.details,
                                "Required services must be available before commissioning")>>)
    /\ UNCHANGED <<call, result, host, uptime_seconds, load_1, cpu_count, mem_total, mem_available,
                   mem_used_percent, disks, inode_usages>>

LogGrowth ==
    /\ Running
    /\ pc = "log"
    /\ LET r == _check_log_growth(host.log)
       IN  Proceed(<<Finding("Logs", "Log growth", r.status, r.details,
                             "Runaway logs can exhaust disk and reduce availability")>>)
    /\ UNCHANGED <<call, result, host, uptime_seconds, load_1, cpu_count, mem_total, mem_available,
                   mem_used_percent, disks, inode_usages, services>>

TimeSync ==
    /\ Running
    /\ pc = "time"
    /\ LET r == _check_time_sync(host.timedatectl)
       IN  IF r.exc # "none"
           THEN Abort(r) /\ UNCHANGED findings
           ELSE Proceed(<<Finding("System", "Time synchronization", r.val.status,
                                  r.val.details,
                                  "Accurate time is required for audit and incident response")>>)
    /\ UNCHANGED <<call, result, host, uptime_seconds, load_1, cpu_count, mem_total, mem_available,
                   mem_used_percent, disks, inode_usages, services>>

Next ==
    \/ Identity
    \/ CpuLoad
    \/ Memory
    \/ Disk
    \/ Inode
    \/ Services
    \/ LogGrowth
    \/ TimeSync

Spec == Init /\ [][Next]_vars

\* the hosts that differ from a base host in what the external commands do
ExternalHosts ==
    UNION { { [b EXCEPT !.systemctl = r] : r \in [ServiceNames -> SystemctlReplies] }
                \cup { [b EXCEPT !.timedatectl = t] : t \in TimedatectlReplies } :
            b \in {NominalHost, DegradedHost} }

InitExternal == Init /\ host \in ExternalHosts

\* runs on those hosts; the interpreter keeps executing the function, so a
\* check that can run does run
FairSpec == InitExternal /\ [][Next]_vars /\ WF_vars(Next)

(***************************************************************************)
(* Direct calls of the threshold classifier.                               *)
(***************************************************************************)
\* values and cutoffs range over 0..MaxValue
MaxValue == 6

\* the cutoff pairs the checks use, in tenths
ProgramCutoffs ==
    { <<Tenths(70), Tenths(90)>>, <<Tenths(80), Tenths(90)>>,
      <<Tenths(512), Tenths(2048)>> }

ClassifyCalls ==
    [value : 0..MaxValue, warn : 0..MaxValue, risk : 0..MaxValue]
        \cup { [value |-> c[k] + d, warn |-> c[1], risk |-> c[2]] :
                  c \in ProgramCutoffs, k \in 1..2, d \in {-1, 0, 1} }

InitClassify ==
    /\ host = NominalHost
    /\ pc = "identity"
    /\ exc = "none"
    /\ exc_in = ""
    /\ blocked = FALSE
    /\ findings = <<>>
    /\ uptime_seconds = 0
    /\ load_1 = 0
    /\ cpu_count = 0
    /\ mem_total = 0
    /\ mem_available = 0
    /\ mem_used_percent = 0
    /\ disks = <<>>
    /\ inode_usages = <<>>
    /\ services = <<>>
    /\ call \in ClassifyCalls
    /\ result = ""

Classify ==
    /\ result = ""
    /\ result' = _status_from_threshold(call.value, call.warn, call.risk)
    /\ UNCHANGED <<call, host, pc, exc, exc_in, blocked, findings, uptime_seconds,
                   load_1, cpu_count, mem_total, mem_available, mem_used_percent,
                   disks, inode_usages, services>>

SpecClassify == InitClassify /\ [][Classify]_vars

(***************************************************************************)
(* Vocabulary of the properties.                                           *)
(***************************************************************************)
\* the place of a check in the documented order (9: the function returned)
CheckRank(p) ==
    CASE p = "identity" -> 1
      [] p = "cpu"      -> 2
      [] p = "memory"   -> 3
      [] p = "disk"     -> 4
      [] p = "inode"    -> 5
      [] p = "services" -> 6
      [] p = "log"      -> 7
      [] p = "time"     -> 8
      [] p = "done"     -> 9

\* the check a finding belongs to, read off its check name
Rank(f) ==
    IF f.check = "OS version & uptime" THEN 1
    ELSE IF f.check = "CPU load (1m)" THEN 2
    ELSE IF f.check = "Memory usage" THEN 3
    ELSE IF StartsWith(f.check, "Disk usage") THEN 4
    ELSE IF StartsWith(f.check, "Inode usage") THEN 5
    ELSE IF f.check = "Critical services" THEN 6
    ELSE IF f.check = "Log growth" THEN 7
    ELSE IF f.check = "Time synchronization" THEN 8
    ELSE 0

\* the findings of the check of rank k, in the order they were appended
FindingsOf(k) == LET Is(f) == Rank(f) = k IN SelectSeq(findings, Is)

\* the check of rank k has run to its end
Completed(k) == CheckRank(pc) > k

Returned == pc = "done"

\* C1 (as claimed): whatever the data sources answer, no exception reaches
\* the caller, and a run that returned gave a sequence of findings that ends
\* with the time-synchronization finding.
C1_NeverFails ==
    /\ exc = "none"
    /\ Returned => /\ Len(findings) > 0
                   /\ findings[Len(findings)].check = "Time synchronization"

\* C2: the findings are in the fixed order of the checks (identity, CPU,
\* memory, disk, inode, services, log, time): no finding of a later check
\* precedes one of an earlier check, a check that has not run has no finding,
\* and a check that has run has exactly one finding, but for the disk check
\* (one per entry of disks, or the one synthetic finding) and the inode check
\* (one per entry of inode_usages, possibly none).
C2_FixedOrder ==
    /\ \A i, j \in DOMAIN findings : i < j => Rank(findings[i]) <= Rank(findings[j])
    /\ \A i \in DOMAIN findings : Rank(findings[i]) \in 1..8
    /\ \A k \in 1..8 :
          Len(FindingsOf(k)) =
              IF ~Completed(k) THEN 0
              ELSE IF k = 4 THEN (IF Len(disks) = 0 THEN 1 ELSE Len(disks))
              ELSE IF k = 5 THEN Len(inode_usages)
              ELSE 1

\* a run that returned with two disk findings and two inode findings
C2_Witness ==
    /\ Returned
    /\ Len(disks) = 2
    /\ Len(inode_usages) = 2
    /\ Len(findings) = 10

\* the configuration sources the fallback is claimed for: missing,
\* unreadable, not UTF-8, not JSON, not an object, without the key, with a
\* value that is no list, with an empty list, with a list of blank entries
MalformedConfig(src) ==
    IF src.err # "none" THEN TRUE
    ELSE IF src.doc.type # "object" THEN TRUE
    ELSE IF ~src.doc.has_key THEN TRUE
    ELSE IF src.doc.critical_services.type # "array" THEN TRUE
    ELSE \A i \in DOMAIN src.doc.critical_services.items :
            Strip(PyStr(src.doc.critical_services.items[i]), Whitespace) = ""

\* C3 (as claimed): with a missing, unreadable or malformed configuration
\* source _load_critical_services raises nothing and the loaded list is
\* exactly the built-in default list.
C3_FallbackToDefault ==
    MalformedConfig(host.config) =>
        /\ exc_in # "_load_critical_services"
        /\ Completed(6) => services = default_services

\* C4 (as claimed): no external command blocks the run for ever: every
\* invocation ends, by itself or by its timeout, so every run eventually
\* leaves run_system_health_checks.
C4_EventuallyEnds == <>(Returned \/ exc # "none")

\* C5: every finding has a non-empty category and check name, a status among
\* OK, WARNING and RISK, and the risk score that belongs to its status
\* (OK 10, WARNING 55, RISK 85), the synthetic disk finding and the findings
\* with a forced status included.
C5_WellFormedFindings ==
    \A i \in DOMAIN findings :
        LET f == findings[i]
        IN  /\ f.category # ""
            /\ f.check # ""
            /\ f.status \in {"OK", "WARNING", "RISK"}
            /\ f.risk_score = (CASE f.status = "OK"      -> 10
                                 [] f.status = "WARNING" -> 55
                                 [] f.status = "RISK"    -> 85)

\* a returned run with the synthetic disk finding, the forced memory
\* warning, and findings of all three statuses
C5_Witness ==
    /\ Returned
    /\ mem_total = 0
    /\ \E i \in DOMAIN findings : findings[i].check = "Disk usage"
    /\ \A st \in {"OK", "WARNING", "RISK"} :
          \E i \in DOMAIN findings : findings[i].status = st

\* C6 (as claimed): when the log root cannot be walked the log finding is a
\* WARNING with an explanatory message, never the threshold verdict on 0 MB.
C6_WalkFailureWarns ==
    (Completed(7) /\ ~host.log.walkable) =>
        LET f == FindingsOf(7)[1]
        IN  /\ f.status = "WARNING"
            /\ ~StartsWith(f.details, "0.0 MB")

\* the status of the only finding of the check of rank k
StatusOf(k) == FindingsOf(k)[1].status

\* the environment of the end-to-end example: 8 GiB of memory with 1 GiB
\* available, one qualifying mount 95 % used, load 0.5 on 4 CPUs, every
\* configured service active, 100 MB of logs, NTP synchronized
EndToEndEnvironment ==
    /\ mem_total = 8 * 1024
    /\ mem_available = 1 * 1024
    /\ Len(disks) = 1
    /\ disks[1].percent = Tenths(95)
    /\ load_1 = 50
    /\ cpu_count = 4
    /\ \A i \in DOMAIN services :
          /\ SystemctlReply(host.systemctl, services[i]).err = "none"
          /\ Strip(SystemctlReply(host.systemctl, services[i]).stdout, Whitespace) = "active"
    /\ host.log.walkable
    /\ TotalSize(host.log.files, 1) = 100 * 1024
    /\ host.timedatectl.err = "none"
    /\ Lower(Strip(host.timedatectl.stdout, Whitespace)) = "yes"

\* C7 (as claimed): in the end-to-end environment the run yields memory RISK,
\* disk RISK, CPU OK, services OK, log OK and time-sync OK.
C7_EndToEnd_AsClaimed ==
    (Returned /\ EndToEndEnvironment) =>
        /\ StatusOf(3) = "RISK"
        /\ StatusOf(4) = "RISK"
        /\ StatusOf(2) = "OK"
        /\ StatusOf(6) = "OK"
        /\ StatusOf(7) = "OK"
        /\ StatusOf(8) = "OK"

\* C7 (amended): in the end-to-end environment the run yields memory WARNING
\* (87.5 % used is at least 80 and below 90), disk RISK, CPU OK, services OK,
\* log OK and time-sync OK.
C7_EndToEnd ==
    (Returned /\ EndToEndEnvironment) =>
        /\ StatusOf(3) = "WARNING"
        /\ mem_used_percent = 875
        /\ StatusOf(4) = "RISK"
        /\ StatusOf(2) = "OK"
        /\ StatusOf(6) = "OK"
        /\ StatusOf(7) = "OK"
        /\ StatusOf(8) = "OK"

\* a run in the end-to-end environment that returned
C7_Witness == Returned /\ EndToEndEnvironment

\* C8: for cutoffs with warn < risk the classifier returns RISK exactly when
\* value >= risk, WARNING exactly when warn <= value < risk, and OK exactly
\* when value < warn.
C8_Classifier ==
    (result # "" /\ call.warn < call.risk) =>
        /\ (result = "RISK") <=> (call.value >= call.risk)
        /\ (result = "WARNING") <=> (call.warn <= call.value /\ call.value < call.risk)
        /\ (result = "OK") <=> (call.value < call.warn)

\* a value equal to the risk cutoff classified RISK, a cutoff of the checks
C8_Witness ==
    /\ result = "RISK"
    /\ call.value = call.risk
    /\ <<call.warn, call.risk>> \in ProgramCutoffs

\* C9: after the disk check, an empty disks list has given exactly one
\* finding, the synthetic one (category Storage, status WARNING); a list of
\* n entries has given exactly n findings, the i-th named after the i-th
\* mount point, and no synthetic finding.
C9_DiskFindings ==
    Completed(4) =>
        LET D == FindingsOf(4)
        IN  IF Len(disks) = 0
            THEN /\ Len(D) = 1
                 /\ D[1].check = "Disk usage"
                 /\ D[1].category = "Storage"
                 /\ D[1].status = "WARNING"
            ELSE /\ Len(D) = Len(disks)
                 /\ \A i \in DOMAIN D :
                       /\ D[i].check = "Disk usage " \o disks[i].mountpoint
                       /\ D[i].category = "Storage"
                       /\ D[i].details # "No disk usage data found"

\* the disk check has run on two different qualifying mounts
C9_Witness ==
    /\ Completed(4)
    /\ Len(disks) = 2
    /\ disks[1].mountpoint # disks[2].mountpoint

\* /proc/meminfo gives no total: unreadable, without a MemTotal line, or with
\* a MemTotal or MemAvailable value that is no integer
MeminfoWithoutTotal(src) ==
    \/ src.err # "none"
    \/ \A i \in DOMAIN src.lines : src.lines[i].key # "MemTotal:"
    \/ \E i \in DOMAIN src.lines :
          /\ src.lines[i].key \in {"MemTotal:", "MemAvailable:"}
          /\ Len(src.lines[i].rest) > 0
          /\ ~src.lines[i].rest[1].isnum

\* C10: after the memory check, a total of zero (as an unreadable or
\* unparsable /proc/meminfo, or one without MemTotal, gives) makes the memory
\* finding a WARNING with risk score 55; a positive total makes its status
\* the classifier's verdict on the percentage used with cutoffs 80 and 90.
C10_MemoryStatus ==
    Completed(3) =>
        LET f == FindingsOf(3)[1]
        IN  /\ MeminfoWithoutTotal(host.meminfo) => mem_total = 0
            /\ mem_total = 0 => (f.status = "WARNING" /\ f.risk_score = 55)
            /\ mem_total > 0 =>
                  f.status = (IF mem_used_percent >= Tenths(90) THEN "RISK"
                              ELSE IF mem_used_percent >= Tenths(80) THEN "WARNING"
                              ELSE "OK")

\* the memory check has run on a /proc/meminfo that lacks MemTotal
C10_Witness ==
    /\ Completed(3)
    /\ host.meminfo.err = "none"
    /\ mem_total = 0
    /\ mem_used_percent = 0

\* `systemctl is-active name` reports the unit active on this host; a query
\* that fails in any way counts as not active
IsActive(name) ==
    LET reply == SystemctlReply(host.systemctl, name)
    IN  reply.err = "none" /\ Strip(reply.stdout, Whitespace) = "active"

\* the configured services that are not active, in configured order
Inactive == LET Down(name) == ~IsActive(name) IN SelectSeq(services, Down)

\* _check_services has been called: the run is past the services check, or
\* stopped inside one of its queries
ServicesQueried ==
    \/ Completed(6)
    \/ pc = "services" /\ exc_in = "_systemctl_is_active"

\* C11 (as claimed): for every configured list and every assignment of
\* active/inactive, a failed query counting as inactive, _check_services
\* returns, and the services finding is WARNING when some configured service
\* is inactive, its details then being "Not active: " followed by exactly the
\* inactive names in configured order joined by ", ", and OK when all
\* configured services are active.
C11_ServicesVerdict ==
    ServicesQueried =>
        /\ Len(FindingsOf(6)) = 1
        /\ LET f == FindingsOf(6)[1]
           IN  IF Inactive # <<>>
               THEN /\ f.status = "WARNING"
                    /\ f.details = "Not active: " \o Join(", ", Inactive)
               ELSE /\ f.status = "OK"
                    /\ f.details = "All critical services active"

====
